---------------------------- MODULE Spec2Model ----------------------------
(***************************************************************************)
(* A model of parse_lessons.py: the footer stripper, the TOC extractor,    *)
(* the section splitter, the per-line classifiers, the section content     *)
(* classifier, the core dictionary parser and the output assembler.        *)
(*                                                                         *)
(* A line of text is a sequence of characters; a character is a string of  *)
(* length one, and a character outside ASCII is written by its code point  *)
(* ("U+010D" is c-caron, "U+00AE" the regional marker, "U+2022" the        *)
(* bullet).  Cursors are 0-based as in the source: At(s, i) is s[i].       *)
(* None is <<>> and a present value x is <<x>>.                            *)
(*                                                                         *)
(* Four specifications share the definitions:                              *)
(*   Spec         main: parse_toc, split_into_sections, build_output       *)
(*   SpecFooter   strip_footers on its own                                 *)
(*   SpecVocab    parse_vocab_line on its own                              *)
(*   SpecContent  parse_section_content on its own                         *)
(***************************************************************************)
EXTENDS Integers, Sequences, FiniteSets, TLC

VARIABLES
    pc,         \* the position of the program
    raw_lines,  \* main: raw_lines
    toc,        \* main: toc, the mapping returned by parse_toc
    sp,         \* split_into_sections: i, current, sections; history: headers
    sections,   \* main: sections, the list returned by split_into_sections
    bo,         \* build_output: the cursor into sections and the four collections
    sf_lines,   \* strip_footers: lines
    sf,         \* strip_footers: i, clean; history: kept
    vl_line,    \* parse_vocab_line: line
    vl_result,  \* parse_vocab_line: the value returned
    sec,        \* parse_section_content: sec
    psc_lines,  \* parse_section_content: lines
    psc,        \* parse_section_content: the cursor, the buffers and the lists
    psc_out     \* parse_section_content: the value returned

pipeVars == <<raw_lines, toc, sp, sections, bo>>
sfVars == <<sf_lines, sf>>
vlVars == <<vl_line, vl_result>>
pscVars == <<sec, psc_lines, psc, psc_out>>
vars == <<pc, pipeVars, sfVars, vlVars, pscVars>>

-----------------------------------------------------------------------------
(* Bounds of the model.                                                    *)

\* longest input of strip_footers
MaxFooterLines == 5
\* longest input of main drawn freely from FreeAlphabet
MaxLines == 4
\* longest body that follows the fixed front matter in the input of main
MaxBody == 4
\* longest section given to parse_section_content
MaxSectionLines == 3

-----------------------------------------------------------------------------
(* Characters and strings.                                                 *)

Min(S) == CHOOSE x \in S : \A y \in S : x <= y
Max(S) == 0 - Min({0 - x : x \in S})

At(s, k) == s[k + 1]

\* the characters of a string constant
Chars(str) == [k \in 1..Len(str) |-> SubSeq(str, k, k)]

\* s[a:b] of Python for 0 <= a, b (clamped to the length)
Slice(s, a, b) ==
    LET e == IF b > Len(s) THEN Len(s) ELSE b
    IN IF a >= e THEN <<>> ELSE SubSeq(s, a + 1, e)

\* all sequences over S of length at most n
SeqsUpTo(S, n) == UNION {[1..k -> S] : k \in 0..n}

WS == {" ", "\t", "\n"}
DIGITS == {"0", "1", "2", "3", "4", "5", "6", "7", "8", "9"}
ASCII_LOWER == {"a", "b", "c", "d", "e", "f", "g", "h", "i", "j", "k", "l", "m",
                "n", "o", "p", "q", "r", "s", "t", "u", "v", "w", "x", "y", "z"}
ASCII_UPPER == {"A", "B", "C", "D", "E", "F", "G", "H", "I", "J", "K", "L", "M",
                "N", "O", "P", "Q", "R", "S", "T", "U", "V", "W", "X", "Y", "Z"}
\* c-caron, c-acute, d-stroke, s-caron, z-caron
DIA_LOWER == {"U+010D", "U+0107", "U+0111", "U+0161", "U+017E"}
DIA_UPPER == {"U+010C", "U+0106", "U+0110", "U+0160", "U+017D"}

Prefix(p, s) == Len(p) <= Len(s) /\ SubSeq(s, 1, Len(p)) = p
Suffix(p, s) == Len(p) <= Len(s) /\ SubSeq(s, Len(s) - Len(p) + 1, Len(s)) = p

\* the cursor (1-based) of the first character of s at or after k that is
\* in (not in) the set; Len(s) + 1 when there is none
RECURSIVE first_in(_, _, _)
first_in(s, k, set) ==
    IF k > Len(s) THEN Len(s) + 1
    ELSE IF s[k] \in set THEN k ELSE first_in(s, k + 1, set)
RECURSIVE first_not_in(_, _, _)
first_not_in(s, k, set) ==
    IF k > Len(s) THEN Len(s) + 1
    ELSE IF s[k] \notin set THEN k ELSE first_not_in(s, k + 1, set)
\* the cursor of the last character of s at or before k that is not in the
\* set; 0 when there is none
RECURSIVE last_not_in(_, _, _)
last_not_in(s, k, set) ==
    IF k < 1 THEN 0
    ELSE IF s[k] \notin set THEN k ELSE last_not_in(s, k - 1, set)

\* str.strip(), str.rstrip() with no argument, and str.rstrip(chars)
strip(s) == SubSeq(s, first_not_in(s, 1, WS), last_not_in(s, Len(s), WS))
rstrip(s) == SubSeq(s, 1, last_not_in(s, Len(s), WS))
rstrip_chars(s, chars) == SubSeq(s, 1, last_not_in(s, Len(s), chars))

\* str.isdigit()
isdigit(s) == s # <<>> /\ \A k \in 1..Len(s) : s[k] \in DIGITS

\* Optional values: None, or Some(x)
None == <<>>
Some(x) == <<x>>

EmptyMap == [x \in {} |-> x]
Put(m, k, v) == [x \in (DOMAIN m) \cup {k} |-> IF x = k THEN v ELSE m[x]]

UPPER_SEQ == <<"A", "B", "C", "D", "E", "F", "G", "H", "I", "J", "K", "L", "M",
               "N", "O", "P", "Q", "R", "S", "T", "U", "V", "W", "X", "Y", "Z",
               "U+010C", "U+0106", "U+0110", "U+0160", "U+017D">>
LOWER_SEQ == <<"a", "b", "c", "d", "e", "f", "g", "h", "i", "j", "k", "l", "m",
               "n", "o", "p", "q", "r", "s", "t", "u", "v", "w", "x", "y", "z",
               "U+010D", "U+0107", "U+0111", "U+0161", "U+017E">>

\* str.lower()
LOWER_OF == [c \in {UPPER_SEQ[k] : k \in 1..Len(UPPER_SEQ)} |->
                LOWER_SEQ[CHOOSE k \in 1..Len(UPPER_SEQ) : UPPER_SEQ[k] = c]]
lower_char(c) == IF c \in DOMAIN LOWER_OF THEN LOWER_OF[c] ELSE c
lower(s) == IF s = <<>> THEN <<>> ELSE [k \in 1..Len(s) |-> lower_char(s[k])]

DIGIT_SEQ == <<"0", "1", "2", "3", "4", "5", "6", "7", "8", "9">>
digit_value(c) == (CHOOSE k \in 1..10 : DIGIT_SEQ[k] = c) - 1

\* int(s) for a string of digits
RECURSIVE int(_)
int(s) == IF s = <<>> THEN 0
          ELSE 10 * int(SubSeq(s, 1, Len(s) - 1)) + digit_value(s[Len(s)])

\* sep.join(parts)
RECURSIVE join(_, _)
join(sep, parts) ==
    IF parts = <<>> THEN <<>>
    ELSE IF Len(parts) = 1 THEN parts[1]
    ELSE parts[1] \o sep \o join(sep, Tail(parts))

-----------------------------------------------------------------------------
(* Footer stripping.                                                       *)

FOOTER_HEAD == Chars("Easy Croa")
FOOTER_TAIL == Chars("an (rev. 47b) / ")

\* ^Easy Croa[!t]an \(rev\. 47b\) / .+$
FOOTER_SECTION_RE(s) ==
    /\ Len(s) >= Len(FOOTER_HEAD) + 1 + Len(FOOTER_TAIL) + 1
    /\ Prefix(FOOTER_HEAD, s)
    /\ s[Len(FOOTER_HEAD) + 1] \in {"!", "t"}
    /\ SubSeq(s, Len(FOOTER_HEAD) + 2, Len(FOOTER_HEAD) + 1 + Len(FOOTER_TAIL)) = FOOTER_TAIL

\* ^(\d+) / 600$
PAGE_LINE_RE(s) ==
    /\ Suffix(Chars(" / 600"), s)
    /\ isdigit(SubSeq(s, 1, Len(s) - 6))

\* while i < len(lines) and lines[i].strip() == "": i += 1
RECURSIVE skip_blank(_, _)
skip_blank(lines, k) ==
    IF k < Len(lines) /\ strip(At(lines, k)) = <<>> THEN skip_blank(lines, k + 1) ELSE k

\* clean.append(lines[i]); i += 1
sf_keep(lines, st) ==
    [i |-> st.i + 1,
     clean |-> Append(st.clean, At(lines, st.i)),
     kept |-> Append(st.kept, st.i)]

\* A mutant of sf_step: a page counter line is dropped wherever it stands.
sf_step_pagedrop(lines, st) ==
    IF FOOTER_SECTION_RE(strip(At(lines, st.i))) \/ PAGE_LINE_RE(strip(At(lines, st.i)))
    THEN [st EXCEPT !.i = skip_blank(lines, st.i + 1)]
    ELSE sf_keep(lines, st)

\* One iteration of the loop of strip_footers; kept records the cursors of
\* the lines appended to clean.  skip_page(j) is the cursor after the page
\* counter line, j being the cursor after the blank run.
sf_step(lines, st) ==
    LET skip_page(j) ==
            IF j < Len(lines) /\ PAGE_LINE_RE(strip(At(lines, j))) THEN j + 1 ELSE j
    IN IF FOOTER_SECTION_RE(strip(At(lines, st.i)))
       THEN [st EXCEPT !.i = skip_page(skip_blank(lines, st.i + 1))]
       ELSE sf_keep(lines, st)

sf_init == [i |-> 0, clean |-> <<>>, kept |-> <<>>]

RECURSIVE sf_run(_, _)
sf_run(lines, st) == IF st.i < Len(lines) THEN sf_run(lines, sf_step(lines, st)) ELSE st

strip_footers(lines) == sf_run(lines, sf_init).clean

-----------------------------------------------------------------------------
(* TOC parsing.                                                            *)

CONTENTS == Chars("Contents")
INTRODUCTION == Chars("Introduction")
CORE_DICTIONARY == Chars("Core Dictionary")
CORE == Chars("CORE")

\* range(contents_idx + 1, min(contents_idx + 400, len(lines)))
TOC_SEARCH_WINDOW == 400
\* min(contents_idx + 350, len(lines))
TOC_FALLBACK_WINDOW == 350

\* ^(\d{2}) (.+)$, ^(A\d) (.+)$, ^(L\d) (.+)$: the first character class
\* decides the pattern; group 1 is s[0:2], group 2 is s[3:]
ID_TITLE_RE(first, s) ==
    /\ Len(s) >= 4
    /\ s[1] \in first
    /\ s[2] \in DIGITS
    /\ s[3] = " "
LESSON_ID_RE(s) == ID_TITLE_RE(DIGITS, s)
APPENDIX_ID_RE(s) == ID_TITLE_RE({"A"}, s)
LIST_ID_RE(s) == ID_TITLE_RE({"L"}, s)
CORE_DICT_RE(s) == s = CORE_DICTIONARY

group1(s) == SubSeq(s, 1, 2)
group2(s) == SubSeq(s, 4, Len(s))

\* the first cursor from k whose stripped line is "Contents"; -1 for None
RECURSIVE contents_scan(_, _)
contents_scan(lines, k) ==
    IF k >= Len(lines) THEN -1
    ELSE IF strip(At(lines, k)) = CONTENTS THEN k
    ELSE contents_scan(lines, k + 1)
contents_idx(lines) == contents_scan(lines, 0)

\* an "Introduction" line whose next non-blank line exists and is not a
\* number; j is the cursor of that line
prose_intro(lines, k) ==
    LET prose_at(j) == j < Len(lines) /\ ~isdigit(strip(At(lines, j)))
    IN strip(At(lines, k)) = INTRODUCTION /\ prose_at(skip_blank(lines, k + 1))

\* the first such line in range(k, hi); -1 for None
RECURSIVE intro_scan(_, _, _)
intro_scan(lines, k, hi) ==
    IF k >= hi THEN -1
    ELSE IF prose_intro(lines, k) THEN k
    ELSE intro_scan(lines, k + 1, hi)
intro_idx(lines, c) ==
    intro_scan(lines, c + 1, Min({c + TOC_SEARCH_WINDOW, Len(lines)}))

\* end = intro_idx if intro_idx else min(contents_idx + 350, len(lines))
toc_end(lines, c) ==
    LET end_of(x) ==
            IF x # -1 /\ x # 0 THEN x ELSE Min({c + TOC_FALLBACK_WINDOW, Len(lines)})
    IN end_of(intro_idx(lines, c))

\* the id and title of an entry line, None when the line is no entry
toc_entry(line) ==
    IF LESSON_ID_RE(line) \/ APPENDIX_ID_RE(line) \/ LIST_ID_RE(line)
    THEN Some([id |-> group1(line), title |-> strip(group2(line))])
    ELSE IF CORE_DICT_RE(line)
    THEN Some([id |-> CORE, title |-> CORE_DICTIONARY])
    ELSE None

\* A mutant of toc_page: the scan does not stop at a non-blank line that is
\* not a number.
RECURSIVE toc_page_any(_, _)
toc_page_any(toc_lines, j) ==
    IF j >= Len(toc_lines) THEN None
    ELSE IF isdigit(strip(At(toc_lines, j))) THEN Some(int(strip(At(toc_lines, j))))
    ELSE toc_page_any(toc_lines, j + 1)

\* the page of an entry: the scan from j over blank lines to a numeric line
RECURSIVE toc_page(_, _)
toc_page(toc_lines, j) ==
    LET page_of(next_line) ==
            IF isdigit(next_line) THEN Some(int(next_line))
            ELSE IF next_line # <<>> THEN None
            ELSE toc_page(toc_lines, j + 1)
    IN IF j >= Len(toc_lines) THEN None ELSE page_of(strip(At(toc_lines, j)))

\* the loop over toc_lines from cursor k, with the mapping built so far;
\* put(e, page) is toc[sec_id] = {"title": sec_title, "page": page}
RECURSIVE toc_scan(_, _, _)
toc_scan(toc_lines, k, m) ==
    LET put(e, page) ==
            IF e = None THEN m
            ELSE Put(m, e[1].id, [title |-> e[1].title, page |-> page])
    IN IF k >= Len(toc_lines) THEN m
       ELSE toc_scan(toc_lines, k + 1,
                     put(toc_entry(strip(At(toc_lines, k))), toc_page(toc_lines, k + 1)))

\* A mutant of toc_from: without a "Contents" line the scan starts at the
\* top of the input instead of returning the empty mapping.
toc_from_top(lines, c) ==
    IF c = -1 THEN toc_scan(Slice(lines, 0, toc_end(lines, 0)), 0, EmptyMap)
    ELSE toc_scan(Slice(lines, c, toc_end(lines, c)), 0, EmptyMap)

\* the mapping for the cursor c of the "Contents" line
toc_from(lines, c) ==
    IF c = -1 THEN EmptyMap
    ELSE toc_scan(Slice(lines, c, toc_end(lines, c)), 0, EmptyMap)
parse_toc(lines) == toc_from(lines, contents_idx(lines))

-----------------------------------------------------------------------------
(* Section splitting.                                                      *)

\* prev_lines[-5:], raw_lines[max(0, i-5):i]
CONTEXT_LINES == 5
\* len(norm_cand) >= 15
PREFIX_MIN_LEN == 15

\* re.sub(r"\s+", " ", s)
RECURSIVE collapse_ws(_)
collapse_ws(s) ==
    IF s = <<>> THEN <<>>
    ELSE IF s[1] \in WS
    THEN <<" ">> \o collapse_ws(SubSeq(s, first_not_in(s, 1, WS), Len(s)))
    ELSE <<s[1]>> \o collapse_ws(Tail(s))

\* the cursor of the leftmost "(" that a non-empty run without ")" joins to
\* the ")" ending t, 0 when there is none: the scan leftwards from k
RECURSIVE leftmost_open(_, _, _)
leftmost_open(t, k, found) ==
    IF k < 1 \/ t[k] = ")" THEN found
    ELSE leftmost_open(t, k - 1, IF t[k] = "(" /\ k <= Len(t) - 2 THEN k ELSE found)

\* re.sub(r"\s*\([^)]+\)\s*$", "", title): the leftmost match starts at the
\* whitespace before that "("; t is the title without trailing whitespace
strip_parenthetical(title) ==
    LET cut(t, open) == IF open >= 1 THEN rstrip(SubSeq(t, 1, open - 1)) ELSE title
        sub(t) == IF Len(t) >= 3 /\ t[Len(t)] = ")"
                  THEN cut(t, leftmost_open(t, Len(t) - 1, 0))
                  ELSE title
    IN sub(rstrip(title))

normalise_title(title) ==
    rstrip_chars(collapse_ws(lower(strip(strip_parenthetical(title)))),
                 {".", ",", ":", ";"})

\* the context check: the nearest non-blank line of prev_lines ends with a
\* colon or a comma
RECURSIVE prose_before(_)
prose_before(prev_lines) ==
    LET ends_open(p) ==
            IF p # <<>> THEN p[Len(p)] \in {":", ","}
            ELSE prose_before(SubSeq(prev_lines, 1, Len(prev_lines) - 1))
    IN IF prev_lines = <<>> THEN FALSE
       ELSE ends_open(strip(prev_lines[Len(prev_lines)]))

\* prev_lines[-n:]
last_lines(prev_lines, n) ==
    Slice(prev_lines, IF Len(prev_lines) > n THEN Len(prev_lines) - n ELSE 0, Len(prev_lines))

\* the id + title test of is_known_header against the TOC:
\* norm_cand == norm_toc or (len(norm_cand) >= 15 and norm_toc.startswith(norm_cand))
title_matches(t, sid, candidate_title) ==
    LET matches(norm_cand, norm_toc) ==
            \/ norm_cand = norm_toc
            \/ Len(norm_cand) >= PREFIX_MIN_LEN /\ Prefix(norm_cand, norm_toc)
    IN /\ sid \in DOMAIN t
       /\ matches(normalise_title(candidate_title), normalise_title(t[sid].title))

\* A mutant of is_known_header: a matched header carries the title written
\* on the line, not the one recorded in the TOC.
is_known_header_line_title(t, stripped_line, prev_lines) ==
    IF prose_before(last_lines(prev_lines, CONTEXT_LINES)) THEN None
    ELSE IF /\ LESSON_ID_RE(stripped_line) \/ APPENDIX_ID_RE(stripped_line)
                  \/ LIST_ID_RE(stripped_line)
            /\ title_matches(t, group1(stripped_line), rstrip(strip(group2(stripped_line))))
    THEN Some([id |-> group1(stripped_line),
               title |-> rstrip(strip(group2(stripped_line))),
               page |-> t[group1(stripped_line)].page])
    ELSE IF CORE_DICT_RE(stripped_line) /\ CORE \in DOMAIN t
    THEN Some([id |-> CORE, title |-> CORE_DICTIONARY, page |-> t[CORE].page])
    ELSE None

\* A mutant of is_known_header: the context check on the lines before the
\* candidate is missing.
is_known_header_no_context(t, stripped_line, prev_lines) ==
    IF /\ LESSON_ID_RE(stripped_line) \/ APPENDIX_ID_RE(stripped_line)
             \/ LIST_ID_RE(stripped_line)
       /\ title_matches(t, group1(stripped_line), rstrip(strip(group2(stripped_line))))
    THEN Some([id |-> group1(stripped_line),
               title |-> t[group1(stripped_line)].title,
               page |-> t[group1(stripped_line)].page])
    ELSE IF CORE_DICT_RE(stripped_line) /\ CORE \in DOMAIN t
    THEN Some([id |-> CORE, title |-> CORE_DICTIONARY, page |-> t[CORE].page])
    ELSE None

\* is_known_header: Some([id, title, page]) or None
is_known_header(t, stripped_line, prev_lines) ==
    IF prose_before(last_lines(prev_lines, CONTEXT_LINES)) THEN None
    ELSE IF /\ LESSON_ID_RE(stripped_line) \/ APPENDIX_ID_RE(stripped_line)
                  \/ LIST_ID_RE(stripped_line)
            /\ title_matches(t, group1(stripped_line), rstrip(strip(group2(stripped_line))))
    THEN Some([id |-> group1(stripped_line),
               title |-> t[group1(stripped_line)].title,
               page |-> t[group1(stripped_line)].page])
    ELSE IF CORE_DICT_RE(stripped_line) /\ CORE \in DOMAIN t
    THEN Some([id |-> CORE, title |-> CORE_DICTIONARY, page |-> t[CORE].page])
    ELSE None

\* the loop that counts the "Introduction" lines from cursor k: the cursor
\* of the second one, 0 when there is none
RECURSIVE content_start_scan(_, _, _)
content_start_scan(lines, k, intro_count) ==
    IF k >= Len(lines) THEN 0
    ELSE IF strip(At(lines, k)) # INTRODUCTION
    THEN content_start_scan(lines, k + 1, intro_count)
    ELSE IF intro_count + 1 = 2 THEN k
    ELSE content_start_scan(lines, k + 1, intro_count + 1)
find_content_start(lines) == content_start_scan(lines, 0, 0)

\* A mutant of split_apply: the "continue" after a header is missing, so
\* the header line becomes the first line of the section it opens.
split_apply_keep_header(st, line, header) ==
    IF header # None
    THEN [i |-> st.i + 1,
          sections |-> IF st.current # None
                       THEN Append(st.sections, st.current[1]) ELSE st.sections,
          current |-> Some([id |-> header[1].id,
                            title |-> header[1].title,
                            page_start |-> header[1].page,
                            lines |-> <<rstrip_chars(line, {"\n"})>>]),
          headers |-> Append(st.headers, st.i)]
    ELSE IF st.current # None
    THEN [st EXCEPT !.i = st.i + 1,
                    !.current = Some([st.current[1] EXCEPT
                                 !.lines = Append(@, rstrip_chars(line, {"\n"}))])]
    ELSE [st EXCEPT !.i = st.i + 1]

\* the body of the loop at cursor st.i, header being what is_known_header
\* returned for the line
split_apply(st, line, header) ==
    IF header # None
    THEN [i |-> st.i + 1,
          sections |-> IF st.current # None
                       THEN Append(st.sections, st.current[1]) ELSE st.sections,
          current |-> Some([id |-> header[1].id,
                            title |-> header[1].title,
                            page_start |-> header[1].page,
                            lines |-> <<>>]),
          headers |-> Append(st.headers, st.i)]
    ELSE IF st.current # None
    THEN [st EXCEPT !.i = st.i + 1,
                    !.current = Some([st.current[1] EXCEPT
                                 !.lines = Append(@, rstrip_chars(line, {"\n"}))])]
    ELSE [st EXCEPT !.i = st.i + 1]

\* One iteration of the loop over range(content_start, len(raw_lines)).
\* st is [i, current, sections] and the history field headers.
split_step(lines, t, st) ==
    split_apply(st, At(lines, st.i),
                is_known_header(t, strip(At(lines, st.i)),
                                Slice(lines, Max({0, st.i - CONTEXT_LINES}), st.i)))

\* if current is not None: sections.append(current)
split_close(st) ==
    IF st.current # None THEN Append(st.sections, st.current[1]) ELSE st.sections

split_init(lines) ==
    [i |-> find_content_start(lines), current |-> None, sections |-> <<>>,
     headers |-> <<>>]

RECURSIVE split_run(_, _, _)
split_run(lines, t, st) ==
    IF st.i < Len(lines) THEN split_run(lines, t, split_step(lines, t, st)) ELSE st

split_into_sections(lines, t) == split_close(split_run(lines, t, split_init(lines)))

-----------------------------------------------------------------------------
(* The line classifiers.                                                   *)

REGIONAL_MARKER == "U+00AE"
BULLET == "U+2022"
PUNCT == {".", "!", "?"}

\* [a-zA-Z] and the ten letters with diacritics
LETTERS == ASCII_LOWER \cup ASCII_UPPER \cup DIA_LOWER \cup DIA_UPPER
CROATIAN_DIACRITICS == DIA_LOWER \cup DIA_UPPER
\* \w
WORD_CHARS == LETTERS \cup DIGITS \cup {"_"}

EXERCISE_RE(s) == s = <<BULLET>> \o Chars(" Exercise")
SPI_RE(s) == s = <<BULLET>> \o Chars(" Something Possibly Interesting")
\* ^_{4,}$
SEPARATOR_RE(s) == Len(s) >= 4 /\ \A k \in 1..Len(s) : s[k] = "_"
\* ^(Warning\.|A (warning|suggestion|note)\.|Note\.|Tip\.), re.IGNORECASE
TIP_LEADS == {Chars("warning."), Chars("a warning."), Chars("a suggestion."),
              Chars("a note."), Chars("note."), Chars("tip.")}
TIP_RE(s) == \E lead \in TIP_LEADS : Prefix(lead, lower(s))

has_diacritic(s) == \E k \in 1..Len(s) : s[k] \in CROATIAN_DIACRITICS

\* [a-z...]+(ati|iti|eti|ovati|ivati|nuti|sti|ci)$ with re.IGNORECASE,
\* matched from the start of the word
INF_SUFFIXES == {Chars("ati"), Chars("iti"), Chars("eti"), Chars("ovati"),
                 Chars("ivati"), Chars("nuti"), Chars("sti"), <<"U+0107", "i">>}
CROATIAN_INF_RE(word) ==
    LET ends_with_infinitive(low) ==
            \E suf \in INF_SUFFIXES : Len(low) > Len(suf) /\ Suffix(suf, low)
    IN /\ \A k \in 1..Len(word) : word[k] \in LETTERS
       /\ ends_with_infinitive(lower(word))

looks_croatian(word) == has_diacritic(word) \/ CROATIAN_INF_RE(word)

\* str.split()[0] of a string that holds a non-blank character
first_token(s) ==
    LET token_from(a) == SubSeq(s, a, first_in(s, a, WS) - 1)
    IN token_from(first_not_in(s, 1, WS))

\* the second group of VOCAB_FULL_RE:
\* [a-z(R)][^.!?]* | [A-Z][a-z ,;:\-(R)()/]{1,100}
VOCAB_GLOSS_MAX == 100
GLOSS_CHARS == ASCII_LOWER \cup {" ", ",", ";", ":", "-", REGIONAL_MARKER, "(", ")", "/"}
vocab_gloss(g) ==
    /\ g # <<>>
    /\ \/ /\ g[1] \in ASCII_LOWER \cup {REGIONAL_MARKER}
          /\ \A k \in 2..Len(g) : g[k] \notin PUNCT
       \/ /\ g[1] \in ASCII_UPPER
          /\ Len(g) - 1 >= 1 /\ Len(g) - 1 <= VOCAB_GLOSS_MAX
          /\ \A k \in 2..Len(g) : g[k] \in GLOSS_CHARS

\* [letters\-/ ]{0,50}?
VOCAB_TERM_MAX == 50
TERM_CHARS == LETTERS \cup {"-", "/", " "}

\* The lazy run [letters\-/ ]{0,50}? tried at k characters, then at k + 1:
\* the first k for which the rest matches gives group 1.  The value is the
\* cursor (1-based) of the last character of group 1, or 0 for no match.
\*   gloss_after(g1end): \s+ and the gloss up to the end follow g1end;
\*   paren_at(e, close): the optional parenthetical (\([^)]+\))? after
\*     cursor e, close being the cursor of the first ")" from e + 2, is
\*     taken when it is there and the rest matches, and left out otherwise;
\*   next_or(g1end): the match found, or the run made one character longer.
RECURSIVE vocab_run(_, _)
vocab_run(s, k) ==
    LET gloss_after(g1end) ==
            IF /\ g1end + 1 <= Len(s)
               /\ s[g1end + 1] \in WS
               /\ vocab_gloss(SubSeq(s, first_not_in(s, g1end + 1, WS), Len(s)))
            THEN g1end ELSE 0
        paren_then_gloss(e, with_paren) ==
            IF with_paren # 0 THEN with_paren ELSE gloss_after(e)
        paren_at(e, close) ==
            IF e + 1 <= Len(s) /\ s[e + 1] = "(" /\ close <= Len(s) /\ close > e + 2
            THEN paren_then_gloss(e, gloss_after(close))
            ELSE gloss_after(e)
        next_or(g1end) ==
            IF g1end # 0 THEN g1end
            ELSE IF k + 1 > VOCAB_TERM_MAX \/ k + 2 > Len(s) \/ s[k + 2] \notin TERM_CHARS
            THEN 0
            ELSE vocab_run(s, k + 1)
    IN next_or(paren_at(k + 1, first_in(s, k + 3, {")"})))

\* VOCAB_FULL_RE.match(s): Some([g1, g2]) or None
VOCAB_FULL_RE(s) ==
    LET groups(g1end) ==
            IF g1end = 0 THEN None
            ELSE Some([g1 |-> SubSeq(s, 1, g1end),
                       g2 |-> SubSeq(s, first_not_in(s, g1end + 1, WS), Len(s))])
    IN IF s = <<>> \/ s[1] \notin LETTERS THEN None
       ELSE groups(vocab_run(s, 0))

\* ^(The|In|It|At|On|For|This|That|These|Those|There|Here)\s+[a-z]
GLOSS_STOP_WORDS == {Chars("The"), Chars("In"), Chars("It"), Chars("At"), Chars("On"),
                     Chars("For"), Chars("This"), Chars("That"), Chars("These"),
                     Chars("Those"), Chars("There"), Chars("Here")}
sentence_continuation(e) ==
    LET lower_at(k) == k <= Len(e) /\ e[k] \in ASCII_LOWER
    IN \E w \in GLOSS_STOP_WORDS :
           /\ Prefix(w, e)
           /\ Len(e) > Len(w) /\ e[Len(w) + 1] \in WS
           /\ lower_at(first_not_in(e, Len(w) + 1, WS))

\* str.replace(c, "")
remove_char(s, c) == SelectSeq(s, LAMBDA x : x # c)

VERB == Chars("verb")
VOCAB_LINE_MAX == 120

\* first_word = croatian_raw.split()[0].rstrip("()")
vocab_first_word(croatian_raw) == rstrip_chars(first_token(croatian_raw), {"(", ")"})

\* parse_vocab_line: Some([croatian, english, notes, type]) or None.
\*   entry: the entry built from the parts, paren_note and regional being
\*     the two candidates of notes_parts;
\*   with_regional: the regional marker is moved from the gloss to the notes;
\*   with_paren: paren_m = re.search(r"\(([^)]+)\)", croatian_raw), paren the
\*     cursor of the first "(" (croatian_raw ends with the ")" of the group);
\*   from_groups: the two rejections after the match, then the entry.
parse_vocab_line(line) ==
    LET entry(croatian, english, paren_note, regional) ==
            [croatian |-> croatian,
             english |-> rstrip_chars(english, {".", ","}),
             notes |-> join(<<" ">>,
                            SelectSeq(<<paren_note, regional>>, LAMBDA p : p # <<>>)),
             type |-> IF paren_note # <<>> \/ CROATIAN_INF_RE(first_token(croatian))
                      THEN VERB ELSE <<>>]
        with_regional(croatian, english_raw, paren_note) ==
            IF \E k \in 1..Len(english_raw) : english_raw[k] = REGIONAL_MARKER
            THEN entry(croatian, strip(remove_char(english_raw, REGIONAL_MARKER)),
                       paren_note, <<REGIONAL_MARKER>>)
            ELSE entry(croatian, english_raw, paren_note, <<>>)
        with_paren(croatian_raw, english_raw, paren) ==
            IF paren <= Len(croatian_raw)
            THEN with_regional(strip(SubSeq(croatian_raw, 1, paren - 1)), english_raw,
                               SubSeq(croatian_raw, paren, Len(croatian_raw)))
            ELSE with_regional(croatian_raw, english_raw, <<>>)
        from_groups(croatian_raw, english_raw) ==
            IF ~looks_croatian(vocab_first_word(croatian_raw)) THEN None
            ELSE IF sentence_continuation(english_raw) THEN None
            ELSE Some(with_paren(croatian_raw, english_raw,
                                 first_in(croatian_raw, 1, {"("})))
        from_match(m) ==
            IF m = None THEN None
            ELSE from_groups(strip(m[1].g1), strip(m[1].g2))
        from_stripped(stripped) ==
            IF stripped = <<>> \/ Len(stripped) > VOCAB_LINE_MAX THEN None
            ELSE IF \/ stripped[Len(stripped)] = ":"
                    \/ stripped[1] = "("
                       /\ \A k \in 1..Len(stripped) : stripped[k] # ")"
            THEN None
            ELSE from_match(VOCAB_FULL_RE(stripped))
    IN from_stripped(strip(line))

-----------------------------------------------------------------------------
(* Example sentences and exercise blocks.                                  *)

EXAMPLE_LINE_MAX == 250
EXAMPLE_PART_MAX == 150
EXAMPLE_MIN_LEN == 5

\* re.search(r"[.!?]\s*(R)?$", s) on a stripped line
ends_sentence(s) ==
    LET ends_with_mark(body) == body # <<>> /\ body[Len(body)] \in PUNCT
    IN ends_with_mark(IF s # <<>> /\ s[Len(s)] = REGIONAL_MARKER
                      THEN rstrip(SubSeq(s, 1, Len(s) - 1)) ELSE s)

\* ^([^.!?]+[.!?])\s+([A-Z(][^.!?]+[.!?]\s*(R)?)$: Some([g1, g2]) or None.
\* Group 1 ends at the first mark p, group 2 starts at b and ends at the
\* next mark q; rest_ok is \s*(R)?$ for what follows that mark.
EXAMPLE_LINE_RE(s) ==
    LET rest_ok(rest) ==
            \/ strip(rest) = <<>>
            \/ strip(rest) = <<REGIONAL_MARKER>> /\ rest[Len(rest)] = REGIONAL_MARKER
        groups(p, b, q) ==
            IF /\ p >= 2 /\ p < Len(s)
               /\ s[p + 1] \in WS
               /\ b <= Len(s) /\ s[b] \in ASCII_UPPER \cup {"("}
               /\ q <= Len(s) /\ q >= b + 2
               /\ rest_ok(SubSeq(s, q + 1, Len(s)))
            THEN Some([g1 |-> SubSeq(s, 1, p), g2 |-> SubSeq(s, b, Len(s))])
            ELSE None
        second(p, b) == groups(p, b, first_in(s, b + 1, PUNCT))
        first(p) == second(p, first_not_in(s, p + 1, WS))
    IN first(first_in(s, 1, PUNCT))

\* re.search(r"\b[A-Z][a-z]+\b", s)
has_capitalised_word(s) ==
    LET word_ends(k, e) == e > k + 1 /\ (e > Len(s) \/ s[e] \notin WORD_CHARS)
    IN \E k \in 1..Len(s) :
           /\ s[k] \in ASCII_UPPER
           /\ k = 1 \/ s[k - 1] \notin WORD_CHARS
           /\ word_ends(k, first_not_in(s, k + 1, ASCII_LOWER))

\* the lead-in words of the English-prose test; each is followed by \s
PROSE_LEADS_LOWER == {Chars("the"), Chars("in"), Chars("it"), Chars("at"), Chars("on"),
                      Chars("for"), Chars("this"), Chars("that"), Chars("from"),
                      Chars("with"), Chars("to"), Chars("as"), Chars("by"), Chars("of"),
                      Chars("a "), Chars("an "), Chars("so "), Chars("but"), Chars("and"),
                      Chars("or "), Chars("not"), Chars("no "), Chars("also"),
                      Chars("such"), Chars("some"), Chars("most")}
PROSE_LEADS == PROSE_LEADS_LOWER \cup
               {<<CHOOSE c \in ASCII_UPPER : lower_char(c) = w[1]>> \o Tail(w) :
                    w \in PROSE_LEADS_LOWER}
english_prose(s) ==
    \E w \in PROSE_LEADS : Prefix(w, s) /\ Len(s) > Len(w) /\ s[Len(w) + 1] \in WS

\* parse_example_line: Some([croatian, english]) or None; from_groups is
\* the four tests on the two parts, then the pair
parse_example_line(line) ==
    LET from_groups(croatian, english) ==
            IF Len(rstrip_chars(croatian, PUNCT)) < EXAMPLE_MIN_LEN THEN None
            ELSE IF Len(croatian) > EXAMPLE_PART_MAX \/ Len(english) > EXAMPLE_PART_MAX
            THEN None
            ELSE IF ~(has_diacritic(croatian) \/ has_capitalised_word(croatian))
            THEN None
            ELSE IF english_prose(croatian) THEN None
            ELSE Some([croatian |-> croatian, english |-> english])
        from_match(m) ==
            IF m = None THEN None
            ELSE from_groups(strip(m[1].g1), strip(m[1].g2))
        from_stripped(stripped) ==
            IF stripped = <<>> \/ Len(stripped) > EXAMPLE_LINE_MAX THEN None
            ELSE IF ~ends_sentence(stripped) THEN None
            ELSE from_match(EXAMPLE_LINE_RE(stripped))
    IN from_stripped(strip(line))

CHECK_ANSWERS == Chars("Check answers")
BLANK_MIN_LEN == 4

\* re.search(r"_{4,}", s) and len(s) > 4
fill_in_item(s) ==
    /\ \E k \in 1..(Len(s) - 3) : \A j \in k..(k + 3) : s[j] = "_"
    /\ Len(s) > BLANK_MIN_LEN

block_marker(s) == EXERCISE_RE(s) \/ SPI_RE(s) \/ SEPARATOR_RE(s)

\* the loop of parse_exercise_block from cursor k
RECURSIVE exercise_scan(_, _, _, _)
exercise_scan(lines, k, instruction_parts, items) ==
    LET at_line(stripped) ==
            IF block_marker(stripped)
            THEN [i |-> k, instruction_parts |-> instruction_parts, items |-> items]
            ELSE IF Prefix(CHECK_ANSWERS, stripped)
            THEN [i |-> k + 1, instruction_parts |-> instruction_parts, items |-> items]
            ELSE IF fill_in_item(stripped)
            THEN exercise_scan(lines, k + 1, instruction_parts,
                               Append(items, [prompt |-> stripped, answer |-> <<>>]))
            ELSE exercise_scan(lines, k + 1,
                               IF items = <<>> /\ stripped # <<>>
                               THEN Append(instruction_parts, stripped)
                               ELSE instruction_parts,
                               items)
    IN IF k >= Len(lines)
       THEN [i |-> k, instruction_parts |-> instruction_parts, items |-> items]
       ELSE at_line(strip(At(lines, k)))

\* parse_exercise_block: [exercise, next] for the pair it returns
parse_exercise_block(lines, start) ==
    LET block(r) ==
            [exercise |-> [instruction |-> strip(join(<<" ">>, r.instruction_parts)),
                           items |-> r.items],
             next |-> r.i]
    IN block(exercise_scan(lines, start + 1, <<>>, <<>>))

-----------------------------------------------------------------------------
(* Section content parsing.                                                *)

NEWLINE == <<"\n">>
EXPLANATION == Chars("explanation")
SPI == Chars("spi")

\* re.search of a literal, with \b on the left and on the right as asked:
\* \b before (after) a match s[a..b] that begins (ends) with a word character
search_literal(s, pat, left, right) ==
    LET boundary_before(a) == a = 1 \/ s[a - 1] \notin WORD_CHARS
        boundary_after(b) == b = Len(s) \/ s[b + 1] \notin WORD_CHARS
    IN \E a \in 1..(Len(s) - Len(pat) + 1) :
           /\ SubSeq(s, a, a + Len(pat) - 1) = pat
           /\ left => boundary_before(a)
           /\ right => boundary_after(a + Len(pat) - 1)

\* \b(accusative|genitive|...|future tense)\b with re.IGNORECASE
GRAMMAR_TERMS == {Chars("accusative"), Chars("genitive"), Chars("dative"),
                  Chars("locative"), Chars("instrumental"), Chars("nominative"),
                  Chars("vocative"), Chars("infinitive"), Chars("present tense"),
                  Chars("past tense"), Chars("future tense")}
grammar_term(s) ==
    LET any_term(low) == \E w \in GRAMMAR_TERMS : search_literal(low, w, TRUE, TRUE)
    IN any_term(lower(s))

\* the locals of parse_section_content before the scan
psc_init ==
    [i |-> 0, text_buffer |-> <<>>, in_regional |-> FALSE, regional_buffer |-> <<>>,
     content_sections |-> <<>>, vocabulary |-> <<>>, example_sentences |-> <<>>,
     tips |-> <<>>, grammar_notes |-> <<>>, exercises |-> <<>>, regional_notes |-> <<>>]

flush_text(st) ==
    LET flushed(text) ==
            [st EXCEPT !.content_sections =
                           IF text # <<>>
                           THEN Append(@, [type |-> EXPLANATION, text |-> text])
                           ELSE @,
                       !.text_buffer = <<>>]
    IN flushed(strip(join(NEWLINE, st.text_buffer)))

flush_regional(st) ==
    LET flushed(text) ==
            [st EXCEPT !.regional_notes = IF text # <<>> THEN Append(@, text) ELSE @,
                       !.regional_buffer = <<>>,
                       !.in_regional = FALSE]
    IN flushed(strip(join(NEWLINE, st.regional_buffer)))

\* A mutant of flush_both: the regional buffer is never flushed.
flush_both_text_only(st) == flush_text(st)

\* flush_text(); if in_regional: flush_regional()
flush_both(st) ==
    LET regional_if(t) == IF t.in_regional THEN flush_regional(t) ELSE t
    IN regional_if(flush_text(st))

\* the cursor at which the loop of the aside block stops
RECURSIVE spi_end(_, _)
spi_end(lines, k) ==
    IF k < Len(lines) /\ ~block_marker(strip(At(lines, k))) THEN spi_end(lines, k + 1) ELSE k

\* the cursor at which the continuation loop of a tip stops
RECURSIVE tip_end(_, _)
tip_end(lines, k) ==
    LET tip_stop(s) == s = <<>> \/ SEPARATOR_RE(s) \/ EXERCISE_RE(s)
    IN IF k < Len(lines) /\ ~tip_stop(strip(At(lines, k))) THEN tip_end(lines, k + 1)
       ELSE k

strip_all(ls) == IF ls = <<>> THEN <<>> ELSE [k \in 1..Len(ls) |-> strip(ls[k])]
rstrip_all(ls) == IF ls = <<>> THEN <<>> ELSE [k \in 1..Len(ls) |-> rstrip(ls[k])]

\* the detector that takes the line at the cursor, in the order of the
\* tests of the loop
psc_kind(lines, st) ==
    LET line_kind(line, stripped) ==
            IF EXERCISE_RE(stripped) THEN "exercise"
            ELSE IF SPI_RE(stripped) THEN "spi"
            ELSE IF SEPARATOR_RE(stripped) THEN "separator"
            ELSE IF TIP_RE(stripped) THEN "tip"
            ELSE IF st.in_regional THEN "regional"
            ELSE IF parse_example_line(line) # None THEN "example"
            ELSE IF parse_vocab_line(line) # None THEN "vocab"
            ELSE "text"
    IN line_kind(At(lines, st.i), strip(At(lines, st.i)))

\* the exercise branch: flush; ex, i = parse_exercise_block(lines, i)
psc_exercise(lines, st) ==
    LET taken(t, r) == [t EXCEPT !.exercises = Append(@, r.exercise), !.i = r.next]
    IN taken(flush_both(st), parse_exercise_block(lines, st.i))

\* the aside branch: flush; the lines up to the next block marker at e
psc_spi(lines, st) ==
    LET added(t, text, e) ==
            [t EXCEPT !.content_sections =
                          IF text # <<>> THEN Append(@, [type |-> SPI, text |-> text])
                          ELSE @,
                      !.i = e]
        taken(t, e) ==
            added(t, strip(join(NEWLINE, rstrip_all(Slice(lines, st.i + 1, e)))), e)
    IN taken(flush_both(st), spi_end(lines, st.i + 1))

\* A mutant of psc_separator: the mode is switched on without the flushes.
psc_separator_no_flush(lines, st) == [st EXCEPT !.in_regional = TRUE, !.i = st.i + 1]

\* the separator branch: flush, then in_regional = True
psc_separator(lines, st) ==
    LET taken(t) == [t EXCEPT !.in_regional = TRUE, !.i = st.i + 1]
    IN taken(flush_both(st))

\* A mutant of psc_tip: the line that stops the continuation is consumed
\* with the tip.
psc_tip_past_stop(lines, st) ==
    [flush_both(st) EXCEPT
        !.tips = Append(@, join(<<" ">>,
                                strip_all(Slice(lines, st.i, tip_end(lines, st.i + 1))))),
        !.i = tip_end(lines, st.i + 1) + 1]

\* the tip branch: flush; the line and its continuation lines up to e
psc_tip(lines, st) ==
    LET taken(t, e) ==
            [t EXCEPT !.tips = Append(@, join(<<" ">>, strip_all(Slice(lines, st.i, e)))),
                      !.i = e]
    IN taken(flush_both(st), tip_end(lines, st.i + 1))

\* the regional branch
psc_regional(lines, st) ==
    [st EXCEPT !.regional_buffer = Append(@, strip(At(lines, st.i))), !.i = st.i + 1]

\* the example branch: flush_text(); example_sentences.append(ex_line)
psc_example(lines, st) ==
    LET taken(t, ex_line) ==
            [t EXCEPT !.example_sentences = Append(@, ex_line[1]), !.i = st.i + 1]
    IN taken(flush_text(st), parse_example_line(At(lines, st.i)))

\* the vocabulary branch: flush_text(); vocabulary.append(vocab_item)
psc_vocab(lines, st) ==
    LET taken(t, vocab_item) ==
            [t EXCEPT !.vocabulary = Append(@, vocab_item[1]), !.i = st.i + 1]
    IN taken(flush_text(st), parse_vocab_line(At(lines, st.i)))

\* the last branch: the grammar note, then the text buffer
psc_text(lines, st) ==
    LET taken(line, stripped) ==
            [st EXCEPT !.grammar_notes =
                           IF grammar_term(stripped) THEN Append(@, stripped) ELSE @,
                       !.text_buffer = Append(@, rstrip(line)),
                       !.i = st.i + 1]
    IN taken(At(lines, st.i), strip(At(lines, st.i)))

\* One iteration of the main loop of parse_section_content.
psc_step(lines, st) ==
    LET branch(kind) ==
            CASE kind = "exercise" -> psc_exercise(lines, st)
              [] kind = "spi" -> psc_spi(lines, st)
              [] kind = "separator" -> psc_separator(lines, st)
              [] kind = "tip" -> psc_tip(lines, st)
              [] kind = "regional" -> psc_regional(lines, st)
              [] kind = "example" -> psc_example(lines, st)
              [] kind = "vocab" -> psc_vocab(lines, st)
              [] OTHER -> psc_text(lines, st)
    IN branch(psc_kind(lines, st))

RECURSIVE psc_run(_, _)
psc_run(lines, st) == IF st.i < Len(lines) THEN psc_run(lines, psc_step(lines, st)) ELSE st

\* flush_text(); if in_regional: flush_regional()  (after the loop)
psc_finish(st) == flush_both(st)

-----------------------------------------------------------------------------
(* Topic tags and the record returned by parse_section_content.            *)

TOPICS_MAX == 10

\* keyword_map: the literals of each pattern, whether it opens and closes
\* with \b, and the tag
Kw(pats, left, right, tag) ==
    [pats |-> pats, left |-> left, right |-> right, tag |-> Chars(tag)]
KEYWORD_MAP ==
    << Kw({Chars("alphabet")}, FALSE, FALSE, "alphabet"),
       Kw({Chars("pronunciation")}, FALSE, FALSE, "pronunciation"),
       Kw({Chars("vowel")}, FALSE, FALSE, "vowels"),
       Kw({Chars("consonant")}, FALSE, FALSE, "consonants"),
       Kw({Chars("stress")}, FALSE, FALSE, "stress"),
       Kw({Chars("verb")}, TRUE, FALSE, "verbs"),
       Kw({Chars("noun")}, TRUE, FALSE, "nouns"),
       Kw({Chars("adjective")}, TRUE, FALSE, "adjectives"),
       Kw({Chars("pronoun")}, TRUE, FALSE, "pronouns"),
       Kw({Chars("adverb")}, TRUE, FALSE, "adverbs"),
       Kw({Chars("preposition")}, TRUE, FALSE, "prepositions"),
       Kw({Chars("accusative")}, FALSE, FALSE, "accusative"),
       Kw({Chars("genitive")}, FALSE, FALSE, "genitive"),
       Kw({Chars("dative")}, TRUE, TRUE, "dative"),
       Kw({Chars("locative")}, TRUE, TRUE, "locative"),
       Kw({Chars("instrumental")}, FALSE, FALSE, "instrumental"),
       Kw({Chars("vocative")}, FALSE, FALSE, "vocative"),
       Kw({Chars("plural")}, TRUE, TRUE, "plural"),
       Kw({Chars("past tense")}, FALSE, FALSE, "past-tense"),
       Kw({Chars("future tense")}, FALSE, FALSE, "future-tense"),
       Kw({Chars("present tense")}, FALSE, FALSE, "present-tense"),
       Kw({Chars("number")}, TRUE, FALSE, "numbers"),
       Kw({Chars("gender")}, TRUE, TRUE, "gender"),
       Kw({Chars("color"), Chars("colour")}, FALSE, FALSE, "colors"),
       Kw({Chars("question")}, FALSE, FALSE, "questions"),
       Kw({Chars("negation"), Chars("negative")}, FALSE, FALSE, "negation"),
       Kw({Chars("conditional")}, FALSE, FALSE, "conditionals"),
       Kw({Chars("relative clause")}, FALSE, FALSE, "relative-clauses"),
       Kw({Chars("dialect")}, FALSE, FALSE, "dialects"),
       Kw({Chars("comparative")}, FALSE, FALSE, "comparatives") >>

\* the loop over keyword_map from entry k, with the topics found so far
RECURSIVE topics_scan(_, _, _)
topics_scan(combined, k, topics) ==
    LET add(kw) ==
            IF /\ \E p \in kw.pats : search_literal(combined, p, kw.left, kw.right)
               /\ ~\E j \in 1..Len(topics) : topics[j] = kw.tag
            THEN Append(topics, kw.tag) ELSE topics
    IN IF k > Len(KEYWORD_MAP) THEN topics
       ELSE topics_scan(combined, k + 1, add(KEYWORD_MAP[k]))

generate_topics(title, content_text) ==
    Slice(topics_scan(lower(title \o <<" ">> \o content_text), 1, <<>>), 0, TOPICS_MAX)

texts_of(content_sections) ==
    IF content_sections = <<>> THEN <<>>
    ELSE [k \in 1..Len(content_sections) |-> content_sections[k].text]

\* the record parse_section_content returns from the locals after the scan
psc_result(title, st) ==
    [topics |-> generate_topics(title, join(<<" ">>, texts_of(st.content_sections))),
     content_sections |-> st.content_sections,
     vocabulary |-> st.vocabulary,
     example_sentences |-> st.example_sentences,
     tables |-> <<>>,
     tips |-> st.tips,
     grammar_notes |-> st.grammar_notes,
     exercises |-> st.exercises,
     regional_notes |-> st.regional_notes]

\* parse_section_content(sec) for a section record s
parse_section_content(s) ==
    LET content_of(lines) == psc_result(s.title, psc_finish(psc_run(lines, psc_init)))
    IN content_of(strip_footers(s.lines))

-----------------------------------------------------------------------------
(* The core dictionary.                                                    *)

\* middle dot, em dash, feminine ordinal, section sign
DERIVED_MARK == "U+00B7"
NOTE_MARK == "U+2014"
ORDINAL == "U+00AA"
SECTION_SIGN == "U+00A7"

\* lines[i:i+10] and "ahead >= 5"
INDEX_LOOKAHEAD == 10
INDEX_MIN_MARKERS == 5
\* {0,60}? and "word_word_count > 4"
ENTRY_WORD_MAX == 60
ENTRY_TOKENS_MAX == 4

\* ^[A-Z...]{1,2}$ on a stripped line
index_marker_re(s) ==
    Len(s) \in {1, 2} /\ \A k \in 1..Len(s) : s[k] \in ASCII_UPPER \cup DIA_UPPER
index_marker(line) == index_marker_re(strip(line))

RECURSIVE index_run_end(_, _)
index_run_end(lines, j) ==
    IF j < Len(lines) /\ index_marker(At(lines, j)) THEN index_run_end(lines, j + 1) ELSE j

\* ahead: the markers among lines[i:i+10]
ahead(lines, i) ==
    Cardinality({j \in i..(Min({i + INDEX_LOOKAHEAD, Len(lines)}) - 1) :
                    index_marker(At(lines, j))})

\* the end of the alphabet index block, 0 when there is none: the loop from
\* cursor k
RECURSIVE alphabet_scan(_, _)
alphabet_scan(lines, k) ==
    IF k >= Len(lines) THEN 0
    ELSE IF index_marker(At(lines, k)) /\ ahead(lines, k) >= INDEX_MIN_MARKERS
    THEN index_run_end(lines, k)
    ELSE alphabet_scan(lines, k + 1)
alphabet_end(lines) == alphabet_scan(lines, 0)

POS_TAGS == {<<"m">>, <<"m", ORDINAL>>, <<"f">>, <<"n">>, Chars("adj."), Chars("adv."),
             Chars("impf."), Chars("perf."), Chars("v.p."), Chars("v.t."),
             Chars("pass. adj."), Chars("rel. adj."), Chars("conj."), Chars("prep."),
             Chars("pron."), Chars("num.")}
ENTRY_CHARS == LETTERS \cup WS \cup {"-", "(", ")", "/", ".", ORDINAL, "~"}

\* the part-of-speech tag at cursor b (1-based) that whitespace and at
\* least one more character follow; <<>> when there is none
pos_at(s, b) ==
    LET one_of(fits) == IF fits = {} THEN <<>> ELSE CHOOSE t \in fits : TRUE
    IN one_of({t \in POS_TAGS :
                  /\ b + Len(t) <= Len(s)
                  /\ SubSeq(s, b, b + Len(t) - 1) = t
                  /\ s[b + Len(t)] \in WS
                  /\ first_not_in(s, b + Len(t), WS) <= Len(s)})

\* the lazy run {0,60}? tried at k characters, then at k + 1: the first k
\* that whitespace and a tag follow gives the word.  groups(b, pos) are the
\* groups of a match whose tag pos begins at cursor b.
RECURSIVE entry_run(_, _)
entry_run(s, k) ==
    LET groups(b, pos) ==
            Some([word |-> SubSeq(s, 1, k + 1),
                  pos |-> pos,
                  meaning |-> SubSeq(s, first_not_in(s, b + Len(pos), WS), Len(s))])
        with_tag(b, pos) ==
            IF pos # <<>> THEN groups(b, pos)
            ELSE IF k + 1 > ENTRY_WORD_MAX \/ s[k + 2] \notin ENTRY_CHARS THEN None
            ELSE entry_run(s, k + 1)
        tag_from(b) == with_tag(b, pos_at(s, b))
    IN IF k + 2 > Len(s) THEN None
       ELSE IF s[k + 2] \in WS THEN tag_from(first_not_in(s, k + 2, WS))
       ELSE IF k + 1 > ENTRY_WORD_MAX \/ s[k + 2] \notin ENTRY_CHARS THEN None
       ELSE entry_run(s, k + 1)

\* entry_re.match(s): Some([word, pos, meaning]) or None
entry_re(s) ==
    IF s = <<>> \/ s[1] \notin LETTERS THEN None ELSE entry_run(s, 0)

\* len(word.split())
RECURSIVE count_tokens(_)
count_tokens(s) ==
    LET count_from(a) ==
            IF a > Len(s) THEN 0
            ELSE 1 + count_tokens(SubSeq(s, first_in(s, a, WS), Len(s)))
    IN count_from(first_not_in(s, 1, WS))

\* the end (1-based, inclusive) of a match of \s*\d+(?:,\s*\d+)* that
\* begins at cursor a; 0 when there is none.  The digits run from d to e - 1.
RECURSIVE refs_end(_, _)
refs_end(s, a) ==
    LET more_or(e, more) == IF more # 0 THEN more ELSE e - 1
        digits(d, e) ==
            IF d > Len(s) \/ e = d THEN 0
            ELSE IF e <= Len(s) /\ s[e] = "," THEN more_or(e, refs_end(s, e + 1))
            ELSE e - 1
        from(d) == digits(d, first_not_in(s, d, DIGITS))
    IN from(first_not_in(s, a, WS))

\* re.sub(r"(S)\s*\d+(?:,\s*\d+)*", "", s), (S) the section sign
RECURSIVE strip_refs(_)
strip_refs(s) ==
    LET cut(e) ==
            IF e # 0 THEN strip_refs(SubSeq(s, e + 1, Len(s)))
            ELSE <<s[1]>> \o strip_refs(Tail(s))
    IN IF s = <<>> THEN <<>>
       ELSE IF s[1] = SECTION_SIGN THEN cut(refs_end(s, 2))
       ELSE <<s[1]>> \o strip_refs(Tail(s))

\* re.sub(r"\{[^}]+\}", "", s)
RECURSIVE strip_braces(_)
strip_braces(s) ==
    LET cut(close) ==
            IF close <= Len(s) /\ close > 2
            THEN strip_braces(SubSeq(s, close + 1, Len(s)))
            ELSE <<s[1]>> \o strip_braces(Tail(s))
    IN IF s = <<>> THEN <<>>
       ELSE IF s[1] = "{" THEN cut(first_in(s, 2, {"}"}))
       ELSE <<s[1]>> \o strip_braces(Tail(s))

clean_meaning(meaning) ==
    rstrip_chars(strip(strip_braces(strip(strip_refs(meaning)))), {".", ",", ";"})

\* the loop over lines[alphabet_end:] from cursor k; entry is
\* entries.append(...) unless the word has more than four tokens
RECURSIVE core_scan(_, _, _)
core_scan(lines, k, entries) ==
    LET entry(word, pos, meaning) ==
            IF count_tokens(word) > ENTRY_TOKENS_MAX THEN entries
            ELSE Append(entries, [croatian |-> word,
                                  english |-> clean_meaning(meaning),
                                  part_of_speech |-> pos])
        matched(m) ==
            IF m = None THEN entries
            ELSE entry(strip(m[1].word), strip(m[1].pos), strip(m[1].meaning))
        at_line(stripped) ==
            IF \/ stripped = <<>>
               \/ stripped[1] \in {DERIVED_MARK, NOTE_MARK}
               \/ index_marker_re(stripped)
            THEN entries
            ELSE matched(entry_re(stripped))
    IN IF k >= Len(lines) THEN entries
       ELSE core_scan(lines, k + 1, at_line(strip(At(lines, k))))

parse_core_dict_entries(lines) == core_scan(lines, alphabet_end(lines), <<>>)

-----------------------------------------------------------------------------
(* The output assembler.                                                   *)

\* ^A\d$, ^L\d$
APPENDIX_SHAPE(sid) == Len(sid) = 2 /\ sid[1] = "A" /\ sid[2] \in DIGITS
LIST_SHAPE(sid) == Len(sid) = 2 /\ sid[1] = "L" /\ sid[2] \in DIGITS

\* "\n\n".join(cs["text"] for cs in content["content_sections"])
content_text(content) == join(<<"\n", "\n">>, texts_of(content.content_sections))

appendix_record(s, content) ==
    [id |-> s.id, title |-> s.title, page_start |-> s.page_start,
     content |-> content_text(content),
     vocabulary |-> content.vocabulary,
     grammar_notes |-> content.grammar_notes]

list_record(s, content) ==
    [id |-> s.id, title |-> s.title, page_start |-> s.page_start,
     content |-> content_text(content),
     vocabulary |-> content.vocabulary]

lesson_record(s, content) ==
    [id |-> s.id, title |-> s.title, page_start |-> s.page_start,
     topics |-> content.topics,
     content_sections |-> content.content_sections,
     vocabulary |-> content.vocabulary,
     example_sentences |-> content.example_sentences,
     tables |-> content.tables,
     tips |-> content.tips,
     grammar_notes |-> content.grammar_notes,
     exercises |-> content.exercises,
     regional_notes |-> content.regional_notes]

bo_init == [i |-> 0, lessons |-> <<>>, appendices |-> <<>>, lists |-> <<>>,
            core_dictionary |-> <<>>]

\* A mutant of bo_content: the test for the list shape is missing, so a
\* list section falls through to the lessons.
bo_content_no_lists(st, s, content) ==
    IF APPENDIX_SHAPE(s.id)
    THEN [st EXCEPT !.appendices = Append(@, appendix_record(s, content)), !.i = st.i + 1]
    ELSE [st EXCEPT !.lessons = Append(@, lesson_record(s, content)), !.i = st.i + 1]

\* A mutant of bo_content: a record replaces the last one of its collection
\* when both carry the same id.
bo_content_by_id(st, s, content) ==
    IF APPENDIX_SHAPE(s.id)
    THEN [st EXCEPT !.appendices = Append(@, appendix_record(s, content)), !.i = st.i + 1]
    ELSE IF LIST_SHAPE(s.id)
    THEN [st EXCEPT !.lists = Append(@, list_record(s, content)), !.i = st.i + 1]
    ELSE [st EXCEPT !.lessons =
                        IF @ # <<>> /\ @[Len(@)].id = s.id
                        THEN [@ EXCEPT ![Len(@)] = lesson_record(s, content)]
                        ELSE Append(@, lesson_record(s, content)),
                    !.i = st.i + 1]

\* the three branches that take the parsed content of the section
bo_content(st, s, content) ==
    IF APPENDIX_SHAPE(s.id)
    THEN [st EXCEPT !.appendices = Append(@, appendix_record(s, content)), !.i = st.i + 1]
    ELSE IF LIST_SHAPE(s.id)
    THEN [st EXCEPT !.lists = Append(@, list_record(s, content)), !.i = st.i + 1]
    ELSE [st EXCEPT !.lessons = Append(@, lesson_record(s, content)), !.i = st.i + 1]

\* the body of the loop for the section s
bo_section(st, s) ==
    IF s.id = CORE
    THEN [st EXCEPT !.core_dictionary = parse_core_dict_entries(strip_footers(s.lines)),
                    !.i = st.i + 1]
    ELSE bo_content(st, s, parse_section_content(s))

\* One iteration of "for sec in sections".
bo_step(secs, st) == bo_section(st, At(secs, st.i))

\* list.sort(key=lambda x: int(x["id"])): a stable sort, by insertion
RECURSIVE insert_by_id(_, _)
insert_by_id(sorted, x) ==
    IF sorted = <<>> THEN <<x>>
    ELSE IF int(sorted[Len(sorted)].id) <= int(x.id) THEN Append(sorted, x)
    ELSE Append(insert_by_id(SubSeq(sorted, 1, Len(sorted) - 1), x), sorted[Len(sorted)])

RECURSIVE sort_lessons(_)
sort_lessons(ls) ==
    IF ls = <<>> THEN <<>>
    ELSE insert_by_id(sort_lessons(SubSeq(ls, 1, Len(ls) - 1)), ls[Len(ls)])

RECURSIVE bo_run(_, _)
bo_run(secs, st) == IF st.i < Len(secs) THEN bo_run(secs, bo_step(secs, st)) ELSE st

\* build_output(sections, toc): the four collections of the document
build_output(secs) ==
    LET result(st) ==
            [lessons |-> sort_lessons(st.lessons), appendices |-> st.appendices,
             lists |-> st.lists, core_dictionary |-> st.core_dictionary]
    IN result(bo_run(secs, bo_init))

-----------------------------------------------------------------------------
(* The inputs.                                                             *)

Idle == <<>>

\* "Easy Croa!an (rev. 47b) / L", "", " ", "9 / 600", "ab"
FooterAlphabet ==
    { Chars("Easy Croa!an (rev. 47b) / L"),
      <<>>,
      <<" ">>,
      Chars("9 / 600"),
      Chars("ab") }

\* Inputs of main, drawn freely: markers, an entry line and the same entry
\* in another spelling, a page number, prose ending in a colon, a blank line
FreeAlphabet ==
    { CONTENTS, INTRODUCTION, Chars("01 Ab"), Chars("01 ab."), Chars("7"),
      Chars("see:"), <<>> }

\* Inputs of main with a table of contents in front: two lessons, an
\* appendix, a list and the core dictionary, the TOC's own "Introduction"
\* row with its page, and the "Introduction" heading of the prose
FrontMatter ==
    << CONTENTS, Chars("02 Cd"), Chars("12"), Chars("01 Ab"), Chars("A1 Ef"),
       Chars("L1 Gh"), CORE_DICTIONARY, INTRODUCTION, Chars("7"), INTRODUCTION >>
BodyAlphabet ==
    { Chars("02 Cd"), Chars("01 Ab"), Chars("A1 Ef"), Chars("L1 Gh"), CORE_DICTIONARY,
      Chars("piti drink"), Chars("pas m dog") }

MainInputs ==
    SeqsUpTo(FreeAlphabet, MaxLines)
        \cup {FrontMatter \o body : body \in SeqsUpTo(BodyAlphabet, MaxBody)}

\* Inputs of parse_vocab_line: a term, a parenthetical attached or set
\* apart, and a gloss
VocabTerms == {Chars("dom"), Chars("piti"), <<"U+010D">> \o Chars("aj"), Chars("dobar dan")}
VocabParens == {<<>>, Chars("(dva)"), Chars("(ku") \o <<"U+0107">> \o Chars("e)")}
VocabGaps == {<<>>, <<" ">>}
VocabGlosses == {Chars("house"), Chars("The house is"), Chars("go ") \o <<REGIONAL_MARKER>>,
                 Chars("Tea")}
VocabInputs ==
    {t \o gap \o p \o <<" ">> \o g :
        t \in VocabTerms, gap \in VocabGaps, p \in VocabParens, g \in VocabGlosses}

\* Inputs of parse_section_content
ContentAlphabet ==
    { <<BULLET>> \o Chars(" Exercise"),
      <<BULLET>> \o Chars(" Something Possibly Interesting"),
      Chars("____"),
      Chars("Tip. do"),
      Chars("piti drink"),
      Chars("Ana pije. Ana drinks."),
      Chars("the dative"),
      Chars("Fill ____ in"),
      Chars("Check answers"),
      <<>> }
ContentTitle == Chars("Verbs")

-----------------------------------------------------------------------------
(* The specifications.                                                     *)

IdlePipe == raw_lines = Idle /\ toc = Idle /\ sp = Idle /\ sections = Idle /\ bo = Idle
IdleFooter == sf_lines = Idle /\ sf = Idle
IdleVocab == vl_line = Idle /\ vl_result = Idle
IdleContent == sec = Idle /\ psc_lines = Idle /\ psc = Idle /\ psc_out = Idle

(* main *)

Init ==
    /\ pc = "parse_toc"
    /\ raw_lines \in MainInputs
    /\ toc = EmptyMap /\ sp = Idle /\ sections = <<>> /\ bo = Idle
    /\ IdleFooter /\ IdleVocab /\ IdleContent

\* toc = parse_toc(raw_lines)
ParseToc ==
    /\ pc = "parse_toc"
    /\ toc' = parse_toc(raw_lines)
    /\ pc' = "split_start"
    /\ UNCHANGED <<raw_lines, sp, sections, bo, sfVars, vlVars, pscVars>>

\* split_into_sections up to the loop: content_start is found
SplitStart ==
    /\ pc = "split_start"
    /\ sp' = split_init(raw_lines)
    /\ pc' = "split_loop"
    /\ UNCHANGED <<raw_lines, toc, sections, bo, sfVars, vlVars, pscVars>>

SplitStep ==
    /\ pc = "split_loop"
    /\ sp.i < Len(raw_lines)
    /\ sp' = split_step(raw_lines, toc, sp)
    /\ UNCHANGED <<pc, raw_lines, toc, sections, bo, sfVars, vlVars, pscVars>>

SplitReturn ==
    /\ pc = "split_loop"
    /\ sp.i >= Len(raw_lines)
    /\ sections' = split_close(sp)
    /\ bo' = bo_init
    /\ pc' = "build_loop"
    /\ UNCHANGED <<raw_lines, toc, sp, sfVars, vlVars, pscVars>>

BuildStep ==
    /\ pc = "build_loop"
    /\ bo.i < Len(sections)
    /\ bo' = bo_step(sections, bo)
    /\ UNCHANGED <<pc, raw_lines, toc, sp, sections, sfVars, vlVars, pscVars>>

\* lessons.sort(...), and the document is returned
BuildReturn ==
    /\ pc = "build_loop"
    /\ bo.i >= Len(sections)
    /\ bo' = [bo EXCEPT !.lessons = sort_lessons(@)]
    /\ pc' = "done"
    /\ UNCHANGED <<raw_lines, toc, sp, sections, sfVars, vlVars, pscVars>>

Next == ParseToc \/ SplitStart \/ SplitStep \/ SplitReturn \/ BuildStep \/ BuildReturn

Spec == Init /\ [][Next]_vars

(* strip_footers *)

InitFooter ==
    /\ pc = "strip_footers"
    /\ sf_lines \in SeqsUpTo(FooterAlphabet, MaxFooterLines)
    /\ sf = sf_init
    /\ IdlePipe /\ IdleVocab /\ IdleContent

StripFootersStep ==
    /\ pc = "strip_footers"
    /\ sf.i < Len(sf_lines)
    /\ sf' = sf_step(sf_lines, sf)
    /\ UNCHANGED <<pc, sf_lines, pipeVars, vlVars, pscVars>>

StripFootersReturn ==
    /\ pc = "strip_footers"
    /\ sf.i >= Len(sf_lines)
    /\ pc' = "strip_footers_done"
    /\ UNCHANGED <<sfVars, pipeVars, vlVars, pscVars>>

NextFooter == StripFootersStep \/ StripFootersReturn

SpecFooter == InitFooter /\ [][NextFooter]_vars

(* parse_vocab_line *)

InitVocab ==
    /\ pc = "parse_vocab_line"
    /\ vl_line \in VocabInputs
    /\ vl_result = None
    /\ IdlePipe /\ IdleFooter /\ IdleContent

ParseVocabLine ==
    /\ pc = "parse_vocab_line"
    /\ vl_result' = parse_vocab_line(vl_line)
    /\ pc' = "parse_vocab_line_done"
    /\ UNCHANGED <<vl_line, pipeVars, sfVars, pscVars>>

NextVocab == ParseVocabLine

SpecVocab == InitVocab /\ [][NextVocab]_vars

(* parse_section_content *)

InitContent ==
    /\ pc = "psc_start"
    /\ sec \in {[id |-> Chars("01"), title |-> ContentTitle, page_start |-> None,
                 lines |-> ls] : ls \in SeqsUpTo(ContentAlphabet, MaxSectionLines)}
    /\ psc_lines = <<>> /\ psc = psc_init /\ psc_out = None
    /\ IdlePipe /\ IdleFooter /\ IdleVocab

\* lines = strip_footers(sec["lines"]) and the locals are set up
PscStart ==
    /\ pc = "psc_start"
    /\ psc_lines' = strip_footers(sec.lines)
    /\ psc' = psc_init
    /\ pc' = "psc_loop"
    /\ UNCHANGED <<sec, psc_out, pipeVars, sfVars, vlVars>>

\* An iteration of the main loop, one action for each branch of its body.
\* the exercise block
PscExercise ==
    /\ pc = "psc_loop"
    /\ psc.i < Len(psc_lines)
    /\ psc_kind(psc_lines, psc) = "exercise"
    /\ psc' = psc_exercise(psc_lines, psc)
    /\ UNCHANGED <<pc, sec, psc_lines, psc_out, pipeVars, sfVars, vlVars>>

\* the aside block
PscAside ==
    /\ pc = "psc_loop"
    /\ psc.i < Len(psc_lines)
    /\ psc_kind(psc_lines, psc) = "spi"
    /\ psc' = psc_spi(psc_lines, psc)
    /\ UNCHANGED <<pc, sec, psc_lines, psc_out, pipeVars, sfVars, vlVars>>

\* the regional separator
PscSeparator ==
    /\ pc = "psc_loop"
    /\ psc.i < Len(psc_lines)
    /\ psc_kind(psc_lines, psc) = "separator"
    /\ psc' = psc_separator(psc_lines, psc)
    /\ UNCHANGED <<pc, sec, psc_lines, psc_out, pipeVars, sfVars, vlVars>>

\* the tip
PscTip ==
    /\ pc = "psc_loop"
    /\ psc.i < Len(psc_lines)
    /\ psc_kind(psc_lines, psc) = "tip"
    /\ psc' = psc_tip(psc_lines, psc)
    /\ UNCHANGED <<pc, sec, psc_lines, psc_out, pipeVars, sfVars, vlVars>>

\* the regional content
PscRegional ==
    /\ pc = "psc_loop"
    /\ psc.i < Len(psc_lines)
    /\ psc_kind(psc_lines, psc) = "regional"
    /\ psc' = psc_regional(psc_lines, psc)
    /\ UNCHANGED <<pc, sec, psc_lines, psc_out, pipeVars, sfVars, vlVars>>

\* the example sentence
PscExample ==
    /\ pc = "psc_loop"
    /\ psc.i < Len(psc_lines)
    /\ psc_kind(psc_lines, psc) = "example"
    /\ psc' = psc_example(psc_lines, psc)
    /\ UNCHANGED <<pc, sec, psc_lines, psc_out, pipeVars, sfVars, vlVars>>

\* the vocabulary line
PscVocab ==
    /\ pc = "psc_loop"
    /\ psc.i < Len(psc_lines)
    /\ psc_kind(psc_lines, psc) = "vocab"
    /\ psc' = psc_vocab(psc_lines, psc)
    /\ UNCHANGED <<pc, sec, psc_lines, psc_out, pipeVars, sfVars, vlVars>>

\* the grammar note and the regular text
PscText ==
    /\ pc = "psc_loop"
    /\ psc.i < Len(psc_lines)
    /\ psc_kind(psc_lines, psc) = "text"
    /\ psc' = psc_text(psc_lines, psc)
    /\ UNCHANGED <<pc, sec, psc_lines, psc_out, pipeVars, sfVars, vlVars>>

\* the flushes after the loop, the topics, and the record is returned
PscReturn ==
    /\ pc = "psc_loop"
    /\ psc.i >= Len(psc_lines)
    /\ psc' = psc_finish(psc)
    /\ psc_out' = Some(psc_result(sec.title, psc'))
    /\ pc' = "psc_done"
    /\ UNCHANGED <<sec, psc_lines, pipeVars, sfVars, vlVars>>

NextContent ==
    \/ PscStart \/ PscExercise \/ PscAside \/ PscSeparator \/ PscTip \/ PscRegional
    \/ PscExample \/ PscVocab \/ PscText \/ PscReturn

SpecContent == InitContent /\ [][NextContent]_vars

-----------------------------------------------------------------------------
(* The claims.                                                             *)

SplitStarted == pc \in {"split_loop", "build_loop", "done"}
SplitDone == pc \in {"build_loop", "done"}

\* ^\d{2}$, ^A\d$, ^L\d$ as the claims state the three shapes
IsLessonId(sid) == Len(sid) = 2 /\ sid[1] \in DIGITS /\ sid[2] \in DIGITS
IsAppendixId(sid) == Len(sid) = 2 /\ sid[1] = "A" /\ sid[2] \in DIGITS
IsListId(sid) == Len(sid) = 2 /\ sid[1] = "L" /\ sid[2] \in DIGITS

\* the cursors of the input lines whose stripped text is a given literal
CursorsOf(lines, literal) == {k \in 0..(Len(lines) - 1) : strip(At(lines, k)) = literal}

\* the input opens with a table of contents that the prose heading closes:
\* content_start is the cursor of that heading
WellFormedFront ==
    /\ Len(raw_lines) >= Len(FrontMatter)
    /\ SubSeq(raw_lines, 1, Len(FrontMatter)) = FrontMatter

-----------------------------------------------------------------------------
(* C1: the lessons returned by build_output are strictly ascending by     *)
(* numeric id, int(lessons[i].id) < int(lessons[i+1].id) for every         *)
(* adjacent pair, also when the same validated lesson header occurs more   *)
(* than once in the body.                                                  *)
C1_LessonsStrictlyAscending ==
    pc = "done" =>
        \A k \in 1..(Len(bo.lessons) - 1) :
            int(bo.lessons[k].id) < int(bo.lessons[k + 1].id)

\* the header "01 Ab" stands twice in the body after a well-formed front
\* matter, and the lessons hold two records with the id 01
C1_Witness ==
    /\ pc = "done"
    /\ WellFormedFront
    /\ Len(sp.headers) >= 2
    /\ \A k \in 1..Len(sp.headers) : sp.headers[k] >= Len(FrontMatter)
    /\ \E k \in 1..(Len(bo.lessons) - 1) : bo.lessons[k].id = bo.lessons[k + 1].id

-----------------------------------------------------------------------------
(* C2: build_output puts a record in lessons only if its id is two        *)
(* digits, in appendices only if its id is "A" plus a digit, in lists only *)
(* if its id is "L" plus a digit, and no record with the id CORE is in any *)
(* of the three.                                                           *)
C2_RoutingByShape ==
    pc \in {"build_loop", "done"} =>
        /\ \A k \in 1..Len(bo.lessons) :
              IsLessonId(bo.lessons[k].id) /\ bo.lessons[k].id # CORE
        /\ \A k \in 1..Len(bo.appendices) :
              IsAppendixId(bo.appendices[k].id) /\ bo.appendices[k].id # CORE
        /\ \A k \in 1..Len(bo.lists) :
              IsListId(bo.lists[k].id) /\ bo.lists[k].id # CORE

\* all four kinds of section were routed
C2_Witness ==
    /\ pc = "done"
    /\ \E k \in 1..Len(sections) : sections[k].id = CORE
    /\ bo.lessons # <<>> /\ bo.appendices # <<>> /\ bo.lists # <<>>

-----------------------------------------------------------------------------
(* C3: split_into_sections partitions the input: every raw line at or     *)
(* after the content start is a recognized header line, a line discarded   *)
(* because no section is open yet, or a member of exactly one section's    *)
(* line block; no line is in two sections and the blocks, in output order, *)
(* keep the order of the lines.  Section k holds exactly the lines between *)
(* the k-th header and the next one (or the end of the input).             *)
BlockEnd(k) == IF k < Len(sp.headers) THEN sp.headers[k + 1] ELSE Len(raw_lines)

C3_SplitPartitions ==
    SplitDone =>
        /\ Len(sections) = Len(sp.headers)
        /\ \A k \in 1..Len(sp.headers) :
              /\ sp.headers[k] >= find_content_start(raw_lines)
              /\ sp.headers[k] < BlockEnd(k)
              /\ sections[k].lines = Slice(raw_lines, sp.headers[k] + 1, BlockEnd(k))

\* two sections with a line each, and a line dropped before the first header
C3_Witness ==
    /\ SplitDone
    /\ Len(sections) >= 2
    /\ sections[1].lines # <<>> /\ sections[2].lines # <<>>
    /\ sp.headers[1] > find_content_start(raw_lines)

-----------------------------------------------------------------------------
(* C4: every section returned by split_into_sections has an id that is a  *)
(* key of the TOC mapping, and carries the title and the page the TOC      *)
(* records for that id, not the title written on the header line.          *)
C4_SectionsFromToc ==
    SplitDone =>
        \A k \in 1..Len(sections) :
            /\ sections[k].id \in DOMAIN toc
            /\ sections[k].title = toc[sections[k].id].title
            /\ sections[k].page_start = toc[sections[k].id].page

\* a section was opened by a header line whose title is spelt otherwise
\* than in the TOC, and a section carries a page
C4_Witness ==
    /\ SplitDone
    /\ \E k \in 1..Len(sections) :
          /\ LESSON_ID_RE(strip(At(raw_lines, sp.headers[k])))
          /\ strip(group2(strip(At(raw_lines, sp.headers[k])))) # sections[k].title
    /\ \E k \in 1..Len(sections) : sections[k].page_start # None

-----------------------------------------------------------------------------
(* C5: when parse_vocab_line returns an entry, the first token of its     *)
(* croatian field holds a Croatian diacritic or matches the infinitive     *)
(* pattern, also when the parenthetical is attached to the term.           *)
C5_FirstTokenLooksCroatian ==
    pc = "parse_vocab_line_done" /\ vl_result # None =>
        looks_croatian(first_token(vl_result[1].croatian))

\* an entry was returned for a line whose parenthetical is attached to the
\* term, and its term has neither a diacritic nor an infinitive ending
C5_Witness ==
    /\ pc = "parse_vocab_line_done"
    /\ vl_result # None
    /\ \E k \in 2..Len(vl_line) : vl_line[k] = "(" /\ vl_line[k - 1] \notin WS
    /\ ~has_diacritic(vl_result[1].croatian)
    /\ ~CROATIAN_INF_RE(vl_result[1].croatian)

-----------------------------------------------------------------------------
(* C6: strip_footers returns a subsequence of its input, in the original  *)
(* order, that holds no footer-template line; a removed line is a footer   *)
(* line, a blank line of the run directly after a footer line, or a page   *)
(* counter line directly after that run; an input without a footer line    *)
(* is returned unchanged.                                                  *)
IsFooterLine(l) == FOOTER_SECTION_RE(strip(l))
IsBlankLine(l) == strip(l) = <<>>
IsPageLine(l) == PAGE_LINE_RE(strip(l))

\* cursor r is reached from a footer line at f through blank lines only
AfterFooter(lines, f, r) ==
    /\ f < r
    /\ IsFooterLine(At(lines, f))
    /\ \A k \in (f + 1)..(r - 1) : IsBlankLine(At(lines, k))

RemovedLineAllowed(lines, r) ==
    \/ IsFooterLine(At(lines, r))
    \/ /\ IsBlankLine(At(lines, r)) \/ IsPageLine(At(lines, r))
       /\ \E f \in 0..(r - 1) : AfterFooter(lines, f, r)

KeptCursors == {sf.kept[k] : k \in 1..Len(sf.kept)}

C6_StripFooters ==
    pc = "strip_footers_done" =>
        /\ Len(sf.kept) = Len(sf.clean)
        /\ \A k \in 1..Len(sf.kept) :
              /\ sf.kept[k] \in 0..(Len(sf_lines) - 1)
              /\ sf.clean[k] = At(sf_lines, sf.kept[k])
              /\ ~IsFooterLine(sf.clean[k])
        /\ \A k \in 1..(Len(sf.kept) - 1) : sf.kept[k] < sf.kept[k + 1]
        /\ \A r \in (0..(Len(sf_lines) - 1)) \ KeptCursors : RemovedLineAllowed(sf_lines, r)
        /\ (\A r \in 0..(Len(sf_lines) - 1) : ~IsFooterLine(At(sf_lines, r)))
              => sf.clean = sf_lines

\* a footer, a blank run and a page counter were removed, a page counter and
\* a blank line that follow no footer were kept
C6_Witness ==
    /\ pc = "strip_footers_done"
    /\ \E f \in 0..(Len(sf_lines) - 1) :
          /\ IsFooterLine(At(sf_lines, f))
          /\ f + 2 < Len(sf_lines)
          /\ IsBlankLine(At(sf_lines, f + 1))
          /\ IsPageLine(At(sf_lines, f + 2))
          /\ f + 1 \notin KeptCursors /\ f + 2 \notin KeptCursors
    /\ \E k \in KeptCursors : IsPageLine(At(sf_lines, k))
    /\ sf.clean # <<>>

-----------------------------------------------------------------------------
(* C7: when no line of the input is the contents marker, parse_toc        *)
(* returns the empty mapping; and with an empty TOC mapping                *)
(* split_into_sections returns no section, whatever header-shaped lines    *)
(* the input holds.                                                        *)
C7_NoContentsNoSections ==
    /\ pc # "parse_toc" /\ CursorsOf(raw_lines, CONTENTS) = {} => toc = EmptyMap
    /\ SplitStarted /\ toc = EmptyMap =>
          /\ sp.current = None /\ sp.sections = <<>> /\ sp.headers = <<>>
          /\ SplitDone => sections = <<>>

\* an input without the marker that holds a header-shaped line was split
C7_Witness ==
    /\ pc = "done"
    /\ CursorsOf(raw_lines, CONTENTS) = {}
    /\ \E k \in 1..Len(raw_lines) : LESSON_ID_RE(strip(raw_lines[k]))
    /\ toc = EmptyMap
    /\ sections = <<>>

-----------------------------------------------------------------------------
(* C8: build_output emits exactly one record per non-CORE section: the    *)
(* records of lessons, appendices and lists are together as many as the    *)
(* sections whose id is not CORE, each such section is in exactly one      *)
(* collection, and appendices and lists keep the encounter order.          *)
Key(r) == <<r.id, r.title, r.page_start>>
Keys(rs) == IF rs = <<>> THEN <<>> ELSE [k \in 1..Len(rs) |-> Key(rs[k])]
Occurrences(ks, x) == Cardinality({k \in 1..Len(ks) : ks[k] = x})
IsAppendixKey(x) == IsAppendixId(x[1])
IsListKey(x) == IsListId(x[1])
IsLessonKey(x) == x[1] # CORE /\ ~IsAppendixId(x[1]) /\ ~IsListId(x[1])
IsRecordKey(x) == x[1] # CORE

-----------------------------------------------------------------------------
(* C9: in parse_section_content a separator line seen while the regional  *)
(* mode is on flushes the accumulated text as one regional note and leaves *)
(* the mode off, so that the lines after it are classified again instead   *)
(* of being accumulated as regional text.                                  *)
C9_SecondSeparatorLeavesMode ==
    [][ (/\ pc = "psc_loop"
         /\ psc.i < Len(psc_lines)
         /\ SEPARATOR_RE(strip(At(psc_lines, psc.i)))
         /\ psc.in_regional)
        => ~psc'.in_regional ]_vars

\* a vocabulary line after the second separator ended in a regional note
C9_Witness ==
    /\ pc = "psc_done"
    /\ Len(psc_lines) = 3
    /\ SEPARATOR_RE(psc_lines[1]) /\ SEPARATOR_RE(psc_lines[2])
    /\ parse_vocab_line(psc_lines[3]) # None
    /\ psc.vocabulary = <<>>
    /\ psc.regional_notes = <<strip(psc_lines[3])>>

-----------------------------------------------------------------------------
(* C10: split_into_sections scans only lines after the table of contents: *)
(* its content start is at or after the TOC end used by parse_toc, so no   *)
(* line between the contents marker and the TOC end is recognized as a     *)
(* section header, also when the introduction marker occurs fewer than two *)
(* times or before the contents marker.  The formula states the outcome:   *)
(* no recognized header lies between the contents marker and the TOC end.  *)
C10_NoTocRowIsHeader ==
    SplitStarted /\ contents_idx(raw_lines) # -1 =>
        \A k \in 1..Len(sp.headers) :
            ~(/\ sp.headers[k] > contents_idx(raw_lines)
              /\ sp.headers[k] < toc_end(raw_lines, contents_idx(raw_lines)))

\* with a single introduction marker the scan began at the top, and the
\* row of the table of contents opened a section
C10_Witness ==
    /\ SplitDone
    /\ Cardinality(CursorsOf(raw_lines, INTRODUCTION)) < 2
    /\ contents_idx(raw_lines) # -1
    /\ find_content_start(raw_lines) = 0
    /\ \E k \in 1..Len(sp.headers) :
          /\ sp.headers[k] > contents_idx(raw_lines)
          /\ sp.headers[k] < toc_end(raw_lines, contents_idx(raw_lines))

-----------------------------------------------------------------------------
(* C11: in split_into_sections a line of id + title shape whose nearest    *)
(* non-blank line among the 5 raw lines before it ends in a colon or a     *)
(* comma is never recognized as a header, even when its id and title match *)
(* the TOC exactly; such a candidate, like one that fails the TOC          *)
(* validation, neither closes nor opens a section: it is a line of the     *)
(* section open at that point, or of no section when none is open.         *)
IdTitleShape(l) == LESSON_ID_RE(l) \/ APPENDIX_ID_RE(l) \/ LIST_ID_RE(l)

\* the non-blank lines among the 5 before cursor i, and whether the nearest
\* of them ends in a colon or a comma
NonBlankBefore(i) ==
    {j \in Max({0, i - 5})..(i - 1) : strip(At(raw_lines, j)) # <<>>}
AfterOpenProse(i) ==
    /\ NonBlankBefore(i) # {}
    /\ strip(At(raw_lines, Max(NonBlankBefore(i))))
           [Len(strip(At(raw_lines, Max(NonBlankBefore(i)))))] \in {":", ","}

MatchesToc(l) == title_matches(toc, group1(l), strip(group2(l)))
RejectedCandidate(i) ==
    /\ IdTitleShape(strip(At(raw_lines, i)))
    /\ AfterOpenProse(i) \/ ~MatchesToc(strip(At(raw_lines, i)))

HeaderCursors == {sp.headers[k] : k \in 1..Len(sp.headers)}
\* the sections whose header stands before cursor i and whose block holds
\* the line at i, at the place the order of the input gives it
HoldersOf(i) ==
    {k \in 1..Len(sections) :
        /\ sp.headers[k] < i
        /\ i - sp.headers[k] <= Len(sections[k].lines)
        /\ sections[k].lines[i - sp.headers[k]] = At(raw_lines, i)
        /\ i < BlockEnd(k)}

C11_ProseReferenceIsBodyText ==
    SplitDone =>
        \A i \in find_content_start(raw_lines)..(Len(raw_lines) - 1) :
            RejectedCandidate(i) =>
                /\ i \notin HeaderCursors
                /\ Cardinality(HoldersOf(i))
                       = IF \E h \in HeaderCursors : h < i THEN 1 ELSE 0

\* a candidate that matches the TOC exactly stands after prose ending in a
\* colon while a section is open, and is a line of that section
C11_Witness ==
    /\ SplitDone
    /\ \E i \in find_content_start(raw_lines)..(Len(raw_lines) - 1) :
          /\ IdTitleShape(strip(At(raw_lines, i)))
          /\ AfterOpenProse(i)
          /\ MatchesToc(strip(At(raw_lines, i)))
          /\ HoldersOf(i) # {}

-----------------------------------------------------------------------------
(* C12: parse_section_content drops no content line: every non-blank line *)
(* of the footer-stripped section that is not an exercise, aside or        *)
(* separator marker contributes its text to at least one output field,     *)
(* also the non-blank lines after the first fill-in item of an exercise    *)
(* block and the line starting with "Check answers".                       *)
Contains(hay, needle) ==
    \E a \in 1..(Len(hay) - Len(needle) + 1) :
        SubSeq(hay, a, a + Len(needle) - 1) = needle

\* the line l is found in a field of the record o that is returned
Contributes(o, l) ==
    \/ \E k \in 1..Len(o.content_sections) :
          Contains(o.content_sections[k].text, strip(l))
    \/ \E k \in 1..Len(o.vocabulary) : <<o.vocabulary[k]>> = parse_vocab_line(l)
    \/ \E k \in 1..Len(o.example_sentences) :
          <<o.example_sentences[k]>> = parse_example_line(l)
    \/ \E k \in 1..Len(o.tips) : Contains(o.tips[k], strip(l))
    \/ \E k \in 1..Len(o.grammar_notes) : o.grammar_notes[k] = strip(l)
    \/ \E k \in 1..Len(o.regional_notes) : Contains(o.regional_notes[k], strip(l))
    \/ \E k \in 1..Len(o.exercises) :
          \/ Contains(o.exercises[k].instruction, strip(l))
          \/ \E j \in 1..Len(o.exercises[k].items) :
                o.exercises[k].items[j].prompt = strip(l)

ContentLine(l) == strip(l) # <<>> /\ ~block_marker(strip(l))

C12_NoLineDropped ==
    pc = "psc_done" =>
        \A k \in 1..Len(psc_lines) :
            ContentLine(psc_lines[k]) => Contributes(psc_out[1], psc_lines[k])

(* C12, amended: every such line contributes to an output field, except,  *)
(* inside an exercise block, the line starting with "Check answers" and    *)
(* the lines that follow the first fill-in item without being fill-in      *)
(* items: these the exercise parser skips.                                 *)
\* the line at k (1-based) is in the block that the exercise marker at e
\* opens: no marker and no "Check answers" line stands between them
InExerciseBlock(e, k) ==
    /\ e < k
    /\ EXERCISE_RE(strip(psc_lines[e]))
    /\ \A j \in (e + 1)..(k - 1) :
          /\ ~block_marker(strip(psc_lines[j]))
          /\ ~Prefix(CHECK_ANSWERS, strip(psc_lines[j]))
SkippedInExercise(k) ==
    \E e \in 1..(k - 1) :
        /\ InExerciseBlock(e, k)
        /\ \/ Prefix(CHECK_ANSWERS, strip(psc_lines[k]))
           \/ /\ ~fill_in_item(strip(psc_lines[k]))
              /\ \E j \in (e + 1)..(k - 1) : fill_in_item(strip(psc_lines[j]))

C12_OnlyExerciseLinesDropped ==
    pc = "psc_done" =>
        \A k \in 1..Len(psc_lines) :
            ContentLine(psc_lines[k]) /\ ~SkippedInExercise(k)
                => Contributes(psc_out[1], psc_lines[k])

\* an exercise block whose fill-in item is kept and whose next line is lost
C12_Witness ==
    /\ pc = "psc_done"
    /\ \E k \in 1..Len(psc_lines) :
          /\ ContentLine(psc_lines[k])
          /\ SkippedInExercise(k)
          /\ ~Prefix(CHECK_ANSWERS, strip(psc_lines[k]))
          /\ ~Contributes(psc_out[1], psc_lines[k])
    /\ \E k \in 1..Len(psc_lines) :
          /\ fill_in_item(strip(psc_lines[k]))
          /\ \E e \in 1..(k - 1) : InExerciseBlock(e, k)
          /\ Contributes(psc_out[1], psc_lines[k])

-----------------------------------------------------------------------------
(* C13: in parse_toc the page of every entry is the integer value of the  *)
(* first purely numeric line that follows the entry line inside the TOC    *)
(* window with only blank lines in between; when the first non-blank line  *)
(* after the entry is not purely numeric, or the window ends first, the    *)
(* entry is recorded with no page; when two entry lines of the window      *)
(* carry the same id, the mapping holds the title and page of the later.   *)
\* the cursors of the TOC window, from the contents marker to the TOC end
TocWindow ==
    Min(CursorsOf(raw_lines, CONTENTS))
        ..(toc_end(raw_lines, Min(CursorsOf(raw_lines, CONTENTS))) - 1)
\* the cursors of the entry lines of the window, and those of one id
EntryCursors == {k \in TocWindow : toc_entry(strip(At(raw_lines, k))) # None}
EntriesOf(sid) ==
    {k \in EntryCursors : toc_entry(strip(At(raw_lines, k)))[1].id = sid}
\* the page the claim gives to the entry line at cursor k
NonBlankAfter(k) == {j \in TocWindow : j > k /\ strip(At(raw_lines, j)) # <<>>}
PageAfter(k) ==
    IF NonBlankAfter(k) # {} /\ isdigit(strip(At(raw_lines, Min(NonBlankAfter(k)))))
    THEN Some(int(strip(At(raw_lines, Min(NonBlankAfter(k))))))
    ELSE None

C13_PageFollowsEntry ==
    pc # "parse_toc" /\ CursorsOf(raw_lines, CONTENTS) # {} =>
        /\ DOMAIN toc = {toc_entry(strip(At(raw_lines, k)))[1].id : k \in EntryCursors}
        /\ \A sid \in DOMAIN toc :
              /\ toc[sid].title
                     = toc_entry(strip(At(raw_lines, Max(EntriesOf(sid)))))[1].title
              /\ toc[sid].page = PageAfter(Max(EntriesOf(sid)))

\* two entry lines with the same id and different titles, the earlier one
\* without a page and the later one with a page
C13_Witness ==
    /\ pc # "parse_toc"
    /\ CursorsOf(raw_lines, CONTENTS) # {}
    /\ \E sid \in DOMAIN toc :
          /\ Cardinality(EntriesOf(sid)) >= 2
          /\ toc_entry(strip(At(raw_lines, Min(EntriesOf(sid)))))[1].title # toc[sid].title
          /\ PageAfter(Min(EntriesOf(sid))) = None
          /\ toc[sid].page # None

-----------------------------------------------------------------------------
(* C14: the scan of parse_section_content terminates on every finite      *)
(* section: every iteration of its main loop, whichever detector fires,    *)
(* strictly increases the cursor, and the cursor never moves past the      *)
(* number of lines; so the loop makes at most that many iterations.        *)
C14_CursorAdvances ==
    [][ (pc = "psc_loop" /\ psc.i < Len(psc_lines))
           => (psc'.i > psc.i /\ psc'.i <= Len(psc_lines)) ]_vars

\* the scan has returned after an exercise block that ran to the last line
\* and moved the cursor by more than one line in one iteration
C14_Witness ==
    /\ pc = "psc_done"
    /\ Len(psc_lines) >= 3
    /\ psc.i = Len(psc_lines)
    /\ EXERCISE_RE(strip(psc_lines[1]))
    /\ Len(psc.exercises) = 1
    /\ psc.exercises[1].items # <<>>

-----------------------------------------------------------------------------
(* C15: at the start of every iteration of the main loop of               *)
(* parse_section_content the two buffers are never both in use: while the  *)
(* regional mode is on the plain-text buffer is empty, and while it is off *)
(* the regional buffer is empty.                                           *)
C15_OneBufferInUse ==
    pc = "psc_loop" =>
        /\ psc.in_regional => psc.text_buffer = <<>>
        /\ ~psc.in_regional => psc.regional_buffer = <<>>

\* the regional buffer fills after plain text was buffered and flushed
C15_Witness ==
    /\ pc = "psc_loop"
    /\ psc.in_regional
    /\ psc.regional_buffer # <<>>
    /\ psc.text_buffer = <<>>
    /\ \E k \in 1..Len(psc.content_sections) :
          psc.content_sections[k].type = EXPLANATION

=============================================================================
